---- MODULE Spec2Model ----
(***************************************************************************)
(* Verification model of the content acquisition pipeline:                 *)
(*   - the job orchestrator of backend/app/routers/sync.py (persisted job  *)
(*     state shared by several server processes)            -> SpecSync    *)
(*   - the crawler of scripts/crawler_zhihu.py (403 governor, paginated    *)
(*     fetch, watermark)                                    -> SpecCrawl   *)
(*   - the content / creator store writers (crawler, upload endpoint,      *)
(*     add_creator)                                         -> SpecStore   *)
(* The three specifications share one set of variables; each leaves the    *)
(* variables of the other parts unchanged.                                 *)
(***************************************************************************)
EXTENDS Integers, Sequences, FiniteSets, TLC

\* ------------------------------------------------------------------ bounds
\* HTTP requests (start / stop / status) issued in one behaviour
MaxRequests == 2
\* output lines one subprocess prints
MaxLines == 6
\* ticks of the database clock
MaxClock == 1
\* articles, and creators, in one upload batch
MaxBatch == 1
\* largest created_time of a content item
MaxTime == 2
\* pages the platform serves for one creator and one content type
MaxPages == 2
\* items on one page
MaxPageItems == 2
\* keyword blocks a title, and a body, is made of
MaxBlocks == 2
\* repetitions of one piece in a long body
MaxRepeat == 11
\* tagging passes started in one behaviour
MaxPasses == 2
\* manual overrides issued in one behaviour
MaxOverrides == 2
\* symbols in the list of one manual override
MaxSymbols == 2
\* latest day of the calendar of the alignment
MaxDay == 11
MaxAssets == 3
MaxAnswers == 3
MaxArticles == 2

\* ------------------------------------------------------- program constants
\* run_script writes the buffer once it holds this many newlines
LOG_FLUSH_LINES == 5
max_retries == 3

None == "None"
\* a missing, truncated or half-written file
Unreadable == [unreadable |-> TRUE]
\* "progress": None
NoProgress == -1
\* ZhihuCrawler.max_403_errors
max_403_errors == 3
\* "offset += 20" of the page loops
PAGE_STEP == 20
\* a timestamp that is None (start_timestamp, end_timestamp,
\* latest_time_in_db)
NoTime == -1
\* tag_articles.py: matching weights and the least score that is stored
TITLE_WEIGHT == 10
CONTENT_WEIGHT == 1
MIN_SCORE_THRESHOLD == 2
\* match_keywords skips a keyword shorter than this
MIN_KEYWORD_LEN == 2
\* align_to_trading_day: "for i in range(1, 10)"
LOOKBACK_STOP == 10
\* update_article_stocks: match_score of a manual association
MANUAL_SCORE == 100
\* update_article_stocks: the date "" of an article without created_time
EmptyDate == -1

\* the server processes (Gunicorn workers) that share the state file
Workers == {1, 2}
\* task types the start requests of a behaviour ask for: the task of
\* POST /sync/crawl, which runs a script (as "tag_articles" and
\* "tag_articles_all" of POST /sync/tag do, through the same code), and the
\* task of POST /sync/market, which runs none
TaskTypes == {"crawl_zhihu", "update_market"}
Fields == {"is_running", "current_task", "progress", "last_sync_at", "log_output"}

VARIABLES
  \* ---- job orchestrator (sync.py)
  file,      \* content of sync_state.json: a state dict, or Unreadable
  pc,        \* pc[w]: where worker w is in its handler / background task
  task,      \* task[w]: task_type of the background task of w
  kw,        \* kw[w]: kwargs of the _update_sync_state call w is in
  local,     \* local[w]: the dict _update_sync_state read and updated
  snap,      \* snap[w]: the dict read by a separate _read_sync_state()
  buf,       \* buf[w]: log_buffer of run_script
  success,   \* success[w]: result of run_script
  resp,      \* last HTTP response sent: [kind, status]
  nreq,      \* requests issued so far
  stops,     \* stop requests issued so far
  committed, \* what the last completed _write_sync_state left in the file
  \* ---- content and creator store (zhihu_content, zhihu_creators)
  backend,   \* "postgres" when DATABASE_URL names PostgreSQL, else "sqlite"
  clock,     \* CURRENT_TIMESTAMP
  content,   \* rows of zhihu_content
  creators,  \* rows of zhihu_creators
  lastSave,  \* history: <<payload, row>> of the last save_content call while
             \* no other writer has touched zhihu_content since, else <<>>
  \* ---- crawler process (crawler_zhihu.py)
  cpc,                   \* where the crawler process is
  ci,                    \* index in creator_urls of the creator being crawled
  consecutive_403_count, \* ZhihuCrawler.consecutive_403_count
  category,              \* "answer" or "article": the page loop being run
  offset,                \* offset of the next page request
  latest_time_in_db,     \* the watermark crawl_creator computed, or NoTime
  incremental,           \* not args.full
  start_timestamp,       \* --start-date, or NoTime
  end_timestamp,         \* --end-date, or NoTime
  requests,              \* history: requests issued so far
  trailing403,           \* history: 403 responses since the last other response
  lastOutcome,           \* history: outcome of the last request
  tripped,               \* history: CrawlerStoppedError has been raised
  W0,                    \* history: W0[tok], the largest created_time stored
                         \* for creator tok when the run began, or NoTime
  passed,                \* history: the items the last step handed to
                         \* save_content
  lastPage,              \* history: what the page request of the last step
                         \* met, NoPage when the step was no page request
  waited,                \* history: the last request was followed by
                         \* asyncio.sleep(CRAWL_INTERVAL)
  \* ---- tagging (tag_articles.py) and manual association (sentiment.py)
  refs,          \* rows of article_stock_ref, in insertion order
  tpc,           \* where the tagging process is
  tag_all,       \* --all of the pass in progress
  todo,          \* articles of get_untagged_articles not yet processed
  trading_days,  \* the dates of daily_quotes
  passes,        \* tagging passes started so far
  overrides,     \* manual overrides issued so far
  selected,      \* history: content ids the last get_untagged_articles
                 \* returned
  wrote,         \* history: the pass in progress has done a per-item write
  cleared,       \* history: the pass in progress has completed its clear
  lastOverride,  \* history: <<content_id, symbol list>> of the override the
                 \* last step served, else <<>>
  date_in,       \* the date handed to align_to_trading_day
  date_out,      \* the date it returned, NoTime before the call
  \* ---- the server process
  crashed,       \* history: whether the server process crashed, and what
                 \* the crash interrupted
  \* ---- scraper.py (update_daily_quotes)
  batch,         \* symbol_types in iteration order
  fresh,         \* symbols whose latest quote is already today's
  spc,           \* "loop" | "primary" | "secondary" | "end"
  si,            \* 1-based position in batch
  attempt,       \* the retry loop's attempt
  calls,         \* history: per position, the calls made to each source
                 \* and the symbol sent to the secondary one
  outcome,       \* history: per position, how its loop body ended
  quotes,        \* symbols with rows inserted into daily_quotes
  \* ---- a crawl run a second time
  remote,        \* the creator's answers and articles on the platform
  run,           \* 1 in the first run of the crawler, 2 in the second
  first          \* history: how the first run ended and the content ids
                 \* stored by then

syncVars == <<file, pc, task, kw, local, snap, buf, success, resp,
              nreq, stops, committed>>

storeVars == <<backend, clock, content, creators, lastSave>>

crawlVars == <<cpc, ci, consecutive_403_count, category, offset,
               latest_time_in_db, incremental, start_timestamp, end_timestamp,
               requests, trailing403, lastOutcome, tripped, W0, passed,
               lastPage, waited>>

tagVars == <<refs, tpc, tag_all, todo, trading_days, passes, overrides,
             selected, wrote, cleared, lastOverride, date_in, date_out>>

scrapeVars == <<batch, fresh, spc, si, attempt, calls, outcome, quotes>>

resumeVars == <<remote, run, first>>

vars == <<syncVars, storeVars, crawlVars, tagVars, crashed, scrapeVars,
          resumeVars>>

\* each part of the system leaves the variables of the other parts alone
SyncOnly == UNCHANGED <<storeVars, crawlVars, tagVars, crashed, scrapeVars,
                        resumeVars>>
StoreOnly == UNCHANGED <<syncVars, crawlVars, tagVars, crashed, scrapeVars,
                         resumeVars>>
CrawlOnly == UNCHANGED <<syncVars, backend, clock, lastSave, tagVars, crashed,
                         scrapeVars, resumeVars>>
TagOnly == UNCHANGED <<syncVars, crawlVars, backend, clock, creators,
                       lastSave, crashed, scrapeVars, resumeVars>>
ScrapeOnly == UNCHANGED <<syncVars, storeVars, crawlVars, tagVars, crashed,
                          resumeVars>>

\* ================================================================ sync.py

default_state ==
  [is_running |-> FALSE, current_task |-> None, progress |-> NoProgress,
   last_sync_at |-> None, log_output |-> <<>>]

\* _read_sync_state: the parsed file, default_state when it is missing or
\* does not parse (json.load raises on a truncated file)
ReadState(f) == IF f = Unreadable THEN default_state ELSE f

\* dict.update(kwargs)
Update(state, kwargs) ==
  [k \in (DOMAIN state) \cup (DOMAIN kwargs) |->
     IF k \in DOMAIN kwargs THEN kwargs[k] ELSE state[k]]

\* a guard that ignores is_running
StartAdmitsAlways(state) == TRUE
\* the guard of start_crawl / start_tagging / start_market_update
StartAdmits(state) == ~state["is_running"]

\* a first update that does not record the task name
RunningKwargsNoTask(t) ==
  [is_running |-> TRUE, current_task |-> None, progress |-> 0]
\* kwargs of the first update of run_sync_task
RunningKwargs(t) ==
  [is_running |-> TRUE, current_task |-> t, progress |-> 0]

\* the scripts directory of the repository holds no update_market_data.py
MarketScriptExists == FALSE

\* datetime.now().isoformat()
Now == "now"

\* positions of a worker that runs a background task
JobPcs == {"t_begin", "t_info", "s_clear", "s_popen", "s_stream", "s_flush",
           "s_final", "s_exc_read", "s_exc_upd", "t_readfinal", "t_done",
           "t_finally"}
\* positions inside one _update_sync_state call: the file is truncated
\* (open "w"), then dumped
InUpdate(w) == pc[w][2] \in {"trunc", "dump"}
At(w, l) == pc[w] = <<l, "call">>
Jobs == {w \in Workers : pc[w][1] \in JobPcs}

\* no crash so far
NotCrashed ==
  [happened |-> FALSE, task |-> None, running |-> FALSE, stops |-> 0]

SyncInit ==
  /\ file = Unreadable
  /\ pc = [w \in Workers |-> <<"idle", "call">>]
  /\ task = [w \in Workers |-> None]
  /\ kw = [w \in Workers |-> <<>>]
  /\ local = [w \in Workers |-> default_state]
  /\ snap = [w \in Workers |-> default_state]
  /\ buf = [w \in Workers |-> <<>>]
  /\ success = [w \in Workers |-> FALSE]
  /\ resp = [kind |-> None, status |-> 0]
  /\ nreq = 0
  /\ stops = 0
  /\ committed = Unreadable
  /\ crashed = NotCrashed

\* _update_sync_state(**kwargs), first half: state = _read_sync_state();
\* state.update(kwargs)
CallUpdate(w, kwargs) ==
  /\ kw' = [kw EXCEPT ![w] = kwargs]
  /\ local' = [local EXCEPT ![w] = Update(ReadState(file), kwargs)]
  /\ pc' = [pc EXCEPT ![w] = <<pc[w][1], "trunc">>]
  /\ UNCHANGED <<file, committed>>

\* _write_sync_state: open(SYNC_STATE_FILE, "w") truncates the file
UpdTruncate(w) ==
  /\ SyncOnly
  /\ pc[w][2] = "trunc"
  /\ file' = Unreadable
  /\ pc' = [pc EXCEPT ![w] = <<pc[w][1], "dump">>]
  /\ UNCHANGED <<task, kw, local, snap, buf, success, resp, nreq,
                 stops, committed>>

\* where control goes after the update called at label l returns
AfterUpdate(w, l) ==
  CASE l = "t_begin" -> "t_info"
    [] l = "t_info" ->
         IF task[w] = "update_market" /\ ~MarketScriptExists
           THEN "t_readfinal" ELSE "s_clear"
    [] l = "s_clear" -> "s_popen"
    [] l = "s_flush" -> "s_stream"
    [] l = "s_final" -> "t_readfinal"
    [] l = "s_exc_upd" -> "t_readfinal"
    [] l = "t_done" -> "t_finally"
    [] l = "t_finally" -> "idle"
    [] l = "stop" -> "idle"

\* _write_sync_state: json.dump(state, f) and close
UpdDump(w) ==
  /\ SyncOnly
  /\ pc[w][2] = "dump"
  /\ file' = local[w]
  /\ committed' = local[w]
  /\ pc' = [pc EXCEPT ![w] = <<AfterUpdate(w, pc[w][1]), "call">>]
  /\ kw' = [kw EXCEPT ![w] = <<>>]
  /\ local' = [local EXCEPT ![w] = default_state]
  /\ IF pc[w][1] = "stop"
       THEN resp' = [kind |-> "stop", status |-> 200]
       ELSE UNCHANGED resp
  /\ IF pc[w][1] = "t_finally"
       THEN task' = [task EXCEPT ![w] = None]
       ELSE UNCHANGED task
  /\ UNCHANGED <<snap, buf, success, nreq, stops>>


\* POST /sync/crawl, /sync/tag (retag_all or not), /sync/market
StartRequest(w, t) ==
  /\ SyncOnly
  /\ At(w, "idle")
  /\ nreq < MaxRequests
  /\ nreq' = nreq + 1
  /\ IF StartAdmits(ReadState(file))
       THEN /\ pc' = [pc EXCEPT ![w] = <<"t_begin", "call">>]
            /\ task' = [task EXCEPT ![w] = t]
            /\ resp' = [kind |-> "start", status |-> 200]
       ELSE /\ resp' = [kind |-> "start", status |-> 400]
            /\ UNCHANGED <<pc, task>>
  /\ UNCHANGED <<file, kw, local, snap, buf, success, stops, committed>>

\* GET /sync/status: the SyncStatus built from _read_sync_state()
get_sync_status == ReadState(file)

\* POST /sync/stop: state = _read_sync_state()
StopRequest(w) ==
  /\ SyncOnly
  /\ At(w, "idle")
  /\ nreq < MaxRequests
  /\ nreq' = nreq + 1
  /\ stops' = stops + 1
  /\ snap' = [snap EXCEPT ![w] = ReadState(file)]
  /\ pc' = [pc EXCEPT ![w] = <<"stop", "call">>]
  /\ UNCHANGED <<file, task, kw, local, buf, success, resp, committed>>

\* a stop that also resets progress
StopKwargsWithProgress(state) ==
  [is_running |-> FALSE, current_task |-> None, progress |-> NoProgress,
   log_output |-> Append(state["log_output"], "stop")]
\* stop_sync: the kwargs of its update, state being what stop_sync read
StopKwargs(state) ==
  [is_running |-> FALSE, current_task |-> None,
   log_output |-> Append(state["log_output"], "stop")]

\* stop_sync: _update_sync_state(is_running=False, current_task=None,
\* log_output=...)
StopUpdate(w) ==
  /\ SyncOnly
  /\ At(w, "stop")
  /\ CallUpdate(w, StopKwargs(snap[w]))
  /\ snap' = [snap EXCEPT ![w] = default_state]
  /\ UNCHANGED <<task, buf, success, resp, nreq, stops>>

\* run_sync_task: _update_sync_state(is_running=True, current_task=task_type,
\* progress=0)
TaskBegin(w) ==
  /\ SyncOnly
  /\ At(w, "t_begin")
  /\ CallUpdate(w, RunningKwargs(task[w]))
  /\ UNCHANGED <<task, snap, buf, success, resp, nreq, stops>>

\* run_sync_task: the "[INFO] Starting ..." line of the task's branch
TaskInfo(w) ==
  /\ SyncOnly
  /\ At(w, "t_info")
  /\ CallUpdate(w, [log_output |-> <<"info">>])
  /\ success' = [success EXCEPT ![w] = FALSE]
  /\ UNCHANGED <<task, snap, buf, resp, nreq, stops>>

\* run_script: _update_sync_state(log_output="")
ScriptClear(w) ==
  /\ SyncOnly
  /\ At(w, "s_clear")
  /\ CallUpdate(w, [log_output |-> <<>>])
  /\ UNCHANGED <<task, snap, buf, success, resp, nreq, stops>>

\* run_script: subprocess.Popen, which may raise
ScriptPopen(w) ==
  /\ SyncOnly
  /\ At(w, "s_popen")
  /\ \E raised \in BOOLEAN :
       pc' = [pc EXCEPT ![w] =
                <<IF raised THEN "s_exc_read" ELSE "s_stream", "call">>]
  /\ buf' = [buf EXCEPT ![w] = <<>>]
  /\ UNCHANGED <<file, task, kw, local, snap, success, resp, nreq, stops,
                 committed>>

\* run_script: one iteration of "for line in process.stdout"
ScriptLine(w) ==
  /\ SyncOnly
  /\ At(w, "s_stream")
  /\ Len(buf[w]) < MaxLines
  /\ buf' = [buf EXCEPT ![w] = Append(@, "line")]
  /\ pc' = [pc EXCEPT ![w] =
              <<IF Len(buf'[w]) >= LOG_FLUSH_LINES THEN "s_flush"
                ELSE "s_stream", "call">>]
  /\ UNCHANGED <<file, task, kw, local, snap, success, resp, nreq, stops,
                 committed>>

\* run_script: _update_sync_state(log_output=log_buffer) inside the loop
ScriptFlush(w) ==
  /\ SyncOnly
  /\ At(w, "s_flush")
  /\ CallUpdate(w, [log_output |-> buf[w]])
  /\ UNCHANGED <<task, snap, buf, success, resp, nreq, stops>>

\* run_script: the subprocess closes its output and exits with some code
ScriptEof(w) ==
  /\ SyncOnly
  /\ At(w, "s_stream")
  /\ \E ok \in BOOLEAN : success' = [success EXCEPT ![w] = ok]
  /\ pc' = [pc EXCEPT ![w] = <<"s_final", "call">>]
  /\ UNCHANGED <<file, task, kw, local, snap, buf, resp, nreq, stops,
                 committed>>

\* run_script: the final _update_sync_state(log_output=log_buffer)
ScriptFinal(w) ==
  /\ SyncOnly
  /\ At(w, "s_final")
  /\ CallUpdate(w, [log_output |-> buf[w]])
  /\ buf' = [buf EXCEPT ![w] = <<>>]
  /\ UNCHANGED <<task, snap, success, resp, nreq, stops>>

\* run_script, except branch: state = _read_sync_state()
ScriptExcRead(w) ==
  /\ SyncOnly
  /\ At(w, "s_exc_read")
  /\ snap' = [snap EXCEPT ![w] = ReadState(file)]
  /\ pc' = [pc EXCEPT ![w] = <<"s_exc_upd", "call">>]
  /\ UNCHANGED <<file, task, kw, local, buf, success, resp, nreq,
                 stops, committed>>

\* run_script, except branch: append the error to the log, return False
ScriptExcUpdate(w) ==
  /\ SyncOnly
  /\ At(w, "s_exc_upd")
  /\ CallUpdate(w, [log_output |-> Append(snap[w]["log_output"], "error")])
  /\ snap' = [snap EXCEPT ![w] = default_state]
  /\ success' = [success EXCEPT ![w] = FALSE]
  /\ UNCHANGED <<task, buf, resp, nreq, stops>>

\* run_sync_task: state = _read_sync_state() after the task's branch
TaskReadFinal(w) ==
  /\ SyncOnly
  /\ At(w, "t_readfinal")
  /\ snap' = [snap EXCEPT ![w] = ReadState(file)]
  /\ pc' = [pc EXCEPT ![w] = <<"t_done", "call">>]
  /\ UNCHANGED <<file, task, kw, local, buf, success, resp, nreq,
                 stops, committed>>

\* run_sync_task: _update_sync_state(progress=100, last_sync_at=...,
\* log_output=...)
TaskDone(w) ==
  /\ SyncOnly
  /\ At(w, "t_done")
  /\ CallUpdate(w, [progress |-> 100, last_sync_at |-> Now,
                    log_output |->
                      Append(snap[w]["log_output"],
                             IF success[w] THEN "ok" ELSE "warn")])
  /\ snap' = [snap EXCEPT ![w] = default_state]
  /\ success' = [success EXCEPT ![w] = FALSE]
  /\ UNCHANGED <<task, buf, resp, nreq, stops>>

\* a finally block that clears the task name only
IdleKwargsTaskOnly == [current_task |-> None]
\* kwargs of the update in the finally block of run_sync_task
IdleKwargs == [is_running |-> FALSE, current_task |-> None]

\* run_sync_task, finally: _update_sync_state(is_running=False,
\* current_task=None)
TaskFinally(w) ==
  /\ SyncOnly
  /\ At(w, "t_finally")
  /\ CallUpdate(w, IdleKwargs)
  /\ UNCHANGED <<task, snap, buf, success, resp, nreq, stops>>

SyncNext ==
  \E w \in Workers :
    \/ \E t \in TaskTypes : StartRequest(w, t)
    \/ StopRequest(w)
    \/ StopUpdate(w)
    \/ TaskBegin(w)
    \/ TaskInfo(w)
    \/ ScriptClear(w)
    \/ ScriptPopen(w)
    \/ ScriptLine(w)
    \/ ScriptFlush(w)
    \/ ScriptEof(w)
    \/ ScriptFinal(w)
    \/ ScriptExcRead(w)
    \/ ScriptExcUpdate(w)
    \/ TaskReadFinal(w)
    \/ TaskDone(w)
    \/ TaskFinally(w)
    \/ UpdTruncate(w)
    \/ UpdDump(w)

\* the server process dies while the background task of worker w runs, before
\* the finally block of run_sync_task: every handler and task of the process
\* is gone, the state file stays as the last system call left it, and the
\* restarted process serves requests again
Crash(w) ==
  /\ UNCHANGED <<storeVars, crawlVars, tagVars, scrapeVars, resumeVars>>
  /\ ~crashed.happened
  /\ pc[w][1] \in JobPcs \ {"t_finally"}
  /\ crashed' =
       [happened |-> TRUE,
        task |-> task[w],
        running |-> /\ committed # Unreadable
                    /\ committed["is_running"]
                    /\ committed["current_task"] = task[w],
        stops |-> stops]
  /\ pc' = [v \in Workers |-> <<"idle", "call">>]
  /\ task' = [v \in Workers |-> None]
  /\ kw' = [v \in Workers |-> <<>>]
  /\ local' = [v \in Workers |-> default_state]
  /\ snap' = [v \in Workers |-> default_state]
  /\ buf' = [v \in Workers |-> <<>>]
  /\ success' = [v \in Workers |-> FALSE]
  /\ UNCHANGED <<file, resp, nreq, stops, committed>>

CrashNext ==
  \/ SyncNext
  \/ \E w \in Workers : Crash(w)

\* ============================== zhihu_content / zhihu_creators writers

ContentIds == {"c1", "c2"}
UrlTokens == {"ta", "tb"}
\* the id the platform reports for the member with url_token tok
RealId(tok) == "id_" \o tok
Bodies == {"b1", "b2"}

\* content dicts handed to save_content / article items of an upload; body
\* stands for title, text, url, counts and updated_time
Payloads ==
  [content_id : ContentIds, created_time : 1..MaxTime, body : Bodies,
   author_id : {RealId("ta")}]

\* creator dicts handed to save_creator / creator items of an upload
CreatorItems ==
  UNION {{[user_id |-> u, url_token |-> t] : u \in {t, RealId(t)}} :
           t \in UrlTokens}

\* sequences over S of length at most n
SeqsUpTo(S, n) == UNION {[1..k -> S] : k \in 0..n}

\* the row an INSERT of payload p writes
ContentRow(p, now) ==
  [content_id |-> p.content_id, created_time |-> p.created_time,
   body |-> p.body, author_id |-> p.author_id, is_tagged |-> 0,
   created_at |-> now]

\* INSERT OR REPLACE: rows that conflict on the primary key are deleted
InsertOrReplace(tbl, key, row) == {r \in tbl : r[key] # row[key]} \cup {row}

\* save_content, SQLite branch
SaveContentSqlite(tbl, p, now) ==
  InsertOrReplace(tbl, "content_id", ContentRow(p, now))

\* save_content, PostgreSQL branch: ON CONFLICT(content_id) DO UPDATE SET
\* every payload column, created_time included
SaveContentPostgres(tbl, p, now) ==
  IF \E r \in tbl : r.content_id = p.content_id
    THEN {IF r.content_id = p.content_id
            THEN [r EXCEPT !.created_time = p.created_time, !.body = p.body,
                           !.author_id = p.author_id]
            ELSE r : r \in tbl}
    ELSE tbl \cup {ContentRow(p, now)}

save_content(tbl, p, now, be) ==
  IF be = "postgres" THEN SaveContentPostgres(tbl, p, now)
  ELSE SaveContentSqlite(tbl, p, now)

\* the identity columns of a zhihu_creators row
CreatorRow(c) == [user_id |-> c.user_id, url_token |-> c.url_token]

\* save_creator: both branches are keyed by the primary key user_id
\* (ON CONFLICT(user_id) DO UPDATE / INSERT OR REPLACE)
save_creator(tbl, c) == InsertOrReplace(tbl, "user_id", CreatorRow(c))

\* add_creator: 400 when the url_token is known, else a placeholder row with
\* user_id = url_token; the INSERT fails on a primary key already in use
add_creator(tbl, tok) ==
  IF \E r \in tbl : r.url_token = tok THEN tbl
  ELSE IF \E r \in tbl : r.user_id = tok THEN tbl
  ELSE tbl \cup {[user_id |-> tok, url_token |-> tok]}

\* mark_article_tagged
mark_article_tagged(tbl, id) ==
  {IF r.content_id = id THEN [r EXCEPT !.is_tagged = 1] ELSE r : r \in tbl}

\* upload_data, the loop over data.articles from item i on. rows are the
\* loaded rows with the session's changes, pending the objects added; the
\* session does not autoflush, so a query does not see pending objects
RECURSIVE UploadArticles(_, _, _, _, _)
UploadArticles(items, i, rows, pending, now) ==
  IF i > Len(items) THEN [rows |-> rows, pending |-> pending]
  ELSE LET item == items[i] IN
    IF \E r \in rows : r.content_id = item.content_id
      THEN UploadArticles(items, i + 1,
             {IF r.content_id = item.content_id
                THEN [r EXCEPT !.body = item.body] ELSE r : r \in rows},
             pending, now)
      ELSE UploadArticles(items, i + 1, rows,
             Append(pending, ContentRow(item, now)), now)

\* upload_data, the loop over data.creators from item i on
RECURSIVE UploadCreators(_, _, _, _)
UploadCreators(items, i, rows, pending) ==
  IF i > Len(items) THEN [rows |-> rows, pending |-> pending]
  ELSE LET item == items[i] IN
    IF \E r \in rows : r.url_token = item.url_token
      THEN LET existing == CHOOSE r \in rows : r.url_token = item.url_token
               updated ==
                 [existing EXCEPT
                    !.user_id = IF item.user_id # item.url_token
                                  THEN item.user_id ELSE @]
           IN UploadCreators(items, i + 1,
                             (rows \ {existing}) \cup {updated}, pending)
      ELSE UploadCreators(items, i + 1, rows,
                          Append(pending, CreatorRow(item)))

Range(q) == {q[i] : i \in DOMAIN q}

\* db.commit(): the flush fails when two rows would share a primary key
CommitOk(before, rows, pending, key) ==
  LET all == rows \cup Range(pending) IN
    /\ Cardinality(rows) = Cardinality(before)
    /\ Cardinality(all) = Cardinality(rows) + Len(pending)
    /\ Cardinality({r[key] : r \in all}) = Cardinality(all)

StoreInit ==
  /\ backend \in {"sqlite", "postgres"}
  /\ clock = 0
  /\ content = {}
  /\ creators = {}
  /\ lastSave = <<>>

\* time passes
Tick ==
  /\ StoreOnly
  /\ clock < MaxClock
  /\ clock' = clock + 1
  /\ UNCHANGED <<backend, content, creators, lastSave>>

\* ZhihuCrawler.save_content(content)
SaveContent(p) ==
  /\ StoreOnly
  /\ content' = save_content(content, p, clock, backend)
  /\ lastSave' =
       <<p, CHOOSE r \in content' : r.content_id = p.content_id>>
  /\ UNCHANGED <<backend, clock, creators>>

\* ZhihuCrawler.save_creator(creator), with the dict get_creator_info builds
SaveCreator(tok) ==
  /\ StoreOnly
  /\ creators' =
       save_creator(creators, [user_id |-> RealId(tok), url_token |-> tok])
  /\ UNCHANGED <<backend, clock, content, lastSave>>

\* POST /sentiment/creators
AddCreator(tok) ==
  /\ StoreOnly
  /\ creators' = add_creator(creators, tok)
  /\ UNCHANGED <<backend, clock, content, lastSave>>

\* tag_articles: mark_article_tagged(content_id) of a stored item
MarkTagged(id) ==
  /\ StoreOnly
  /\ \E r \in content : r.content_id = id
  /\ content' = mark_article_tagged(content, id)
  /\ lastSave' = <<>>
  /\ UNCHANGED <<backend, clock, creators>>

\* POST /sync/upload: one transaction over both lists, rolled back as a whole
UploadData(articles, crs) ==
  LET a == UploadArticles(articles, 1, content, <<>>, clock)
      c == UploadCreators(crs, 1, creators, <<>>)
      ok == /\ CommitOk(content, a.rows, a.pending, "content_id")
            /\ CommitOk(creators, c.rows, c.pending, "user_id")
  IN /\ StoreOnly
     /\ content' = IF ok THEN a.rows \cup Range(a.pending) ELSE content
     /\ creators' = IF ok THEN c.rows \cup Range(c.pending) ELSE creators
     /\ lastSave' = IF articles = <<>> THEN lastSave ELSE <<>>
     /\ UNCHANGED <<backend, clock>>

StoreNext ==
  \/ Tick
  \/ \E p \in Payloads : SaveContent(p)
  \/ \E tok \in UrlTokens : SaveCreator(tok)
  \/ \E tok \in UrlTokens : AddCreator(tok)
  \/ \E id \in ContentIds : MarkTagged(id)
  \/ \E articles \in SeqsUpTo(Payloads, MaxBatch),
        crs \in SeqsUpTo(CreatorItems, MaxBatch) : UploadData(articles, crs)

\* the store while the job orchestrator alone is observed
StoreIdle ==
  /\ backend = "sqlite"
  /\ clock = 0
  /\ content = {}
  /\ creators = {}
  /\ lastSave = <<>>

\* ====================================================== crawler_zhihu.py

\* the creator list of the run (url_token of each creator URL)
creator_urls == <<"ta", "tb", "tc">>
CrawlTokens == Range(creator_urls)
\* the member a content id of the platform belongs to; "tc" has published
\* nothing
OwnerOf(id) == IF id = "c1" THEN "ta" ELSE "tb"
Statuses == {200, 403, 500}

\* Python truthiness of an optional timestamp: None and 0 are false
Truthy(t) == t # NoTime /\ t # 0

\* outcomes of GET /api/v4/members/{url_token} and of the profile page: the
\* client raises (no response), or a response arrives; valid tells whether a
\* 200 body names the member
InfoOutcomes ==
  {[failed |-> TRUE]}
    \cup {[failed |-> FALSE, status |-> s, valid |-> FALSE] : s \in Statuses}
    \cup {[failed |-> FALSE, status |-> 200, valid |-> TRUE]}

\* items of creator tok the platform may put on a page
PageItems(tok) ==
  {[content_id |-> id, created_time |-> t, body |-> "b1",
    author_id |-> RealId(tok)] :
     id \in {i \in ContentIds : OwnerOf(i) = tok}, t \in 0..MaxTime}

\* outcomes of one page request of creator tok; the platform ends the list
\* at page MaxPages at the latest
PageOutcomes(tok, off) ==
  {[failed |-> TRUE]}
    \cup {[failed |-> FALSE, status |-> s, data |-> <<>>, is_end |-> TRUE] :
            s \in Statuses}
    \cup {[failed |-> FALSE, status |-> 200, data |-> d, is_end |-> e] :
            d \in SeqsUpTo(PageItems(tok), MaxPageItems) \ {<<>>},
            e \in IF off >= PAGE_STEP * (MaxPages - 1) THEN {TRUE}
                  ELSE BOOLEAN}

\* a governor that keeps its counter on a response other than 403
Check403NoReset(count, status) ==
  IF status = 403
    THEN [count |-> count + 1, raised |-> count + 1 >= max_403_errors]
    ELSE [count |-> count, raised |-> FALSE]
\* _check_403_limit: the new counter, and whether CrawlerStoppedError is raised
Check403Limit(count, status) ==
  IF status = 403
    THEN [count |-> count + 1, raised |-> count + 1 >= max_403_errors]
    ELSE [count |-> 0, raised |-> FALSE]

\* request / request_html: an exception of the client is caught and yields an
\* empty result without a call of _check_403_limit; ok is a 200 response
Request(count, out) ==
  IF out.failed THEN [count |-> count, raised |-> FALSE, ok |-> FALSE]
  ELSE LET g == Check403Limit(count, out.status) IN
         [count |-> g.count, raised |-> g.raised,
          ok |-> ~g.raised /\ out.status = 200]

\* get_latest_content_time_for_creator: MAX(created_time) of the author's
\* rows, None when there is none or when it is 0
get_latest_content_time_for_creator(tbl, author_id) ==
  LET times == {r.created_time : r \in {x \in tbl : x.author_id = author_id}}
  IN IF times = {} THEN NoTime
     ELSE LET m == CHOOSE t \in times : \A u \in times : u <= t
          IN IF m # 0 THEN m ELSE NoTime

\* a watermark test that lets an item of time W through
SkipByWatermarkStrict(inc, latest, created_time) ==
  inc /\ Truthy(latest) /\ created_time < latest
\* crawl_creator: "if incremental and latest_time_in_db and created_time <=
\* latest_time_in_db"
SkipByWatermark(inc, latest, created_time) ==
  inc /\ Truthy(latest) /\ created_time <= latest

\* a start filter that lets every item through
BeforeStartNever(start, created_time) == FALSE
\* crawl_creator: "if self.start_timestamp and created_time <
\* self.start_timestamp"
BeforeStart(start, created_time) == Truthy(start) /\ created_time < start

\* crawl_creator: the loop over the items of one page, from item i on
RECURSIVE ProcessItems(_, _, _, _, _, _)
ProcessItems(items, i, tbl, stop, given, st) ==
  IF i > Len(items) THEN [tbl |-> tbl, should_stop |-> stop, passed |-> given]
  ELSE LET item == items[i]
           created_time == item.created_time
       IN IF SkipByWatermark(st.incremental, st.latest, created_time)
            THEN ProcessItems(items, i + 1, tbl, TRUE, given, st)
          ELSE IF BeforeStart(st.start, created_time)
            THEN ProcessItems(items, i + 1, tbl, TRUE, given, st)
          ELSE IF Truthy(st.end) /\ created_time > st.end
            THEN ProcessItems(items, i + 1, tbl, stop, given, st)
          ELSE ProcessItems(items, i + 1,
                            save_content(tbl, item, st.now, st.backend),
                            stop, given \cup {item}, st)

\* a handler in main that goes on with the next creator
AfterStoppedNextCreator == "main"
\* CrawlerStoppedError is caught neither in crawl_creator nor in main: the
\* process ends
AfterStopped == "aborted"

\* the largest created_time stored for the author, NoTime when none is stored
StoredMax(tbl, author_id) ==
  LET times == {r.created_time : r \in {x \in tbl : x.author_id = author_id}}
  IN IF times = {} THEN NoTime
     ELSE CHOOSE t \in times : \A u \in times : u <= t

\* zhihu_content when the run begins: of each content id, no row or the
\* row an earlier crawl of its owner stored
InitialContents ==
  {{ContentRow([content_id |-> id, created_time |-> f[id], body |-> "b1",
                author_id |-> RealId(OwnerOf(id))], 0) :
      id \in {i \in ContentIds : f[i] # NoTime}} :
     f \in [ContentIds -> {NoTime} \cup 0..MaxTime]}

\* the last step was no page request
NoPage ==
  [seen |-> FALSE, empty |-> FALSE, is_end |-> FALSE, should_stop |-> FALSE]

\* the crawler while another part is observed
CrawlIdle ==
  /\ cpc = "done"
  /\ ci = 1
  /\ consecutive_403_count = 0
  /\ category = "answer"
  /\ offset = 0
  /\ latest_time_in_db = NoTime
  /\ incremental = TRUE
  /\ start_timestamp = NoTime
  /\ end_timestamp = NoTime
  /\ requests = 0
  /\ trailing403 = 0
  /\ lastOutcome = "none"
  /\ tripped = FALSE
  /\ W0 = [tok \in CrawlTokens |-> NoTime]
  /\ passed = {}
  /\ lastPage = NoPage
  /\ waited = FALSE

\* main() up to the loop over creator_urls: the flags of the command line,
\* a fresh ZhihuCrawler, the creators registered by add_creator
CrawlInit ==
  /\ cpc = "main"
  /\ ci = 1
  /\ consecutive_403_count = 0
  /\ category = "answer"
  /\ offset = 0
  /\ latest_time_in_db = NoTime
  /\ incremental \in BOOLEAN
  /\ start_timestamp \in {NoTime} \cup 1..MaxTime
  /\ end_timestamp \in {NoTime, MaxTime - 1}
  /\ requests = 0
  /\ trailing403 = 0
  /\ lastOutcome = "none"
  /\ tripped = FALSE
  /\ passed = {}
  /\ lastPage = NoPage
  /\ waited = FALSE
  /\ backend \in {"sqlite", "postgres"}
  /\ clock = 0
  /\ lastSave = <<>>
  /\ creators = {[user_id |-> tok, url_token |-> tok] : tok \in CrawlTokens}
  /\ content \in InitialContents
  /\ W0 = [tok \in CrawlTokens |-> StoredMax(content, RealId(tok))]

\* what a request adds to the history
Observe(out) ==
  /\ requests' = requests + 1
  /\ trailing403' = IF out.failed THEN trailing403
                    ELSE IF out.status = 403 THEN trailing403 + 1 ELSE 0
  /\ lastOutcome' = IF out.failed THEN "failed"
                    ELSE IF out.status = 403 THEN "403" ELSE "other"

\* main: "for url in creator_urls", entering crawl_creator or leaving the loop
MainLoop ==
  /\ CrawlOnly
  /\ cpc = "main"
  /\ cpc' = IF ci > Len(creator_urls) THEN "done" ELSE "info"
  /\ UNCHANGED <<ci, consecutive_403_count, category, offset,
                 latest_time_in_db, incremental, start_timestamp,
                 end_timestamp, requests, trailing403, lastOutcome, tripped,
                 W0, content, creators, waited>>
  /\ passed' = {}
  /\ lastPage' = NoPage

\* crawl_creator after the creator dict is known: save_creator, then the
\* watermark "if incremental and not self.start_timestamp"
BeginContent ==
  /\ creators' = save_creator(creators,
                   [user_id |-> RealId(creator_urls[ci]),
                    url_token |-> creator_urls[ci]])
  /\ latest_time_in_db' =
       IF incremental /\ ~Truthy(start_timestamp)
         THEN get_latest_content_time_for_creator(
                content, RealId(creator_urls[ci]))
         ELSE NoTime
  /\ cpc' = "page"
  /\ category' = "answer"
  /\ offset' = 0
  /\ UNCHANGED ci

\* a raise of CrawlerStoppedError out of request / request_html
Raise ==
  /\ cpc' = "raised"
  /\ tripped' = TRUE

\* crawl_creator: creator = await self.get_creator_info(url_token)
GetCreatorInfo(out) ==
  LET r == Request(consecutive_403_count, out) IN
  /\ CrawlOnly
  /\ cpc = "info"
  /\ consecutive_403_count' = r.count
  /\ Observe(out)
  /\ IF r.raised
       THEN /\ Raise
            /\ UNCHANGED <<ci, category, offset, latest_time_in_db, creators>>
       ELSE /\ UNCHANGED tripped
            /\ IF r.ok /\ out.valid
                 THEN BeginContent
                 ELSE /\ cpc' = "html"
                      /\ UNCHANGED <<ci, category, offset, latest_time_in_db,
                                     creators>>
  /\ passed' = {}
  /\ lastPage' = NoPage
  /\ waited' = FALSE
  /\ UNCHANGED <<incremental, start_timestamp, end_timestamp, W0, content>>

\* crawl_creator: the HTML fallback; without a creator it returns
RequestHtml(out) ==
  LET r == Request(consecutive_403_count, out) IN
  /\ CrawlOnly
  /\ cpc = "html"
  /\ consecutive_403_count' = r.count
  /\ Observe(out)
  /\ IF r.raised
       THEN /\ Raise
            /\ UNCHANGED <<ci, category, offset, latest_time_in_db, creators>>
       ELSE /\ UNCHANGED tripped
            /\ IF r.ok /\ out.valid
                 THEN BeginContent
                 ELSE /\ cpc' = "main"
                      /\ ci' = ci + 1
                      /\ UNCHANGED <<category, offset, latest_time_in_db,
                                     creators>>
  /\ passed' = {}
  /\ lastPage' = NoPage
  /\ waited' = (cpc' = "main")
  /\ UNCHANGED <<incremental, start_timestamp, end_timestamp, W0, content>>

\* crawl_creator: "break" out of a page loop: the article loop follows the
\* answer loop, the return to main follows the article loop
Break ==
  IF category = "answer"
    THEN /\ category' = "article"
         /\ offset' = 0
         /\ cpc' = "page"
         /\ UNCHANGED <<ci, latest_time_in_db>>
    ELSE /\ category' = "answer"
         /\ offset' = 0
         /\ cpc' = "main"
         /\ ci' = ci + 1
         /\ latest_time_in_db' = NoTime

\* a paging test that looks at the end-of-data flag only
PagingEndsOnFlag(is_end, should_stop) == is_end
\* crawl_creator: "if paging.get("is_end", True) or should_stop: break"
PagingEnds(is_end, should_stop) == is_end \/ should_stop

\* one iteration of a page loop, given the outcome of its request; a loop
\* that goes on sleeps after "offset += 20", and main sleeps when
\* crawl_creator has returned
PageStep(out) ==
  LET r == Request(consecutive_403_count, out)
      tok == creator_urls[ci]
      p == ProcessItems(out.data, 1, content, FALSE, {},
             [incremental |-> incremental, latest |-> latest_time_in_db,
              start |-> start_timestamp, end |-> end_timestamp,
              now |-> clock, backend |-> backend])
  IN
  /\ consecutive_403_count' = r.count
  /\ Observe(out)
  /\ IF r.raised
       THEN /\ Raise
            /\ passed' = {}
            /\ lastPage' = NoPage
            /\ waited' = FALSE
            /\ UNCHANGED <<ci, category, offset, latest_time_in_db, content>>
       ELSE /\ UNCHANGED tripped
            /\ IF ~r.ok \/ out.data = <<>>
                 THEN /\ Break
                      /\ passed' = {}
                      /\ lastPage' = [seen |-> TRUE, empty |-> TRUE,
                                      is_end |-> FALSE, should_stop |-> FALSE]
                      /\ waited' = (cpc' = "main")
                      /\ UNCHANGED content
                 ELSE /\ content' = p.tbl
                      /\ passed' = {[tok |-> tok, created_time |-> x.created_time]
                                      : x \in p.passed}
                      /\ lastPage' = [seen |-> TRUE, empty |-> FALSE,
                                      is_end |-> out.is_end,
                                      should_stop |-> p.should_stop]
                      /\ IF PagingEnds(out.is_end, p.should_stop)
                           THEN /\ Break
                                /\ waited' = (cpc' = "main")
                           ELSE /\ offset' = offset + PAGE_STEP
                                /\ waited' = TRUE
                                /\ UNCHANGED <<cpc, ci, category,
                                               latest_time_in_db>>
  /\ UNCHANGED <<incremental, start_timestamp, end_timestamp, W0, creators>>

\* crawl_creator: one iteration of a page loop: the request, the loop over
\* the items of the response, the paging test
FetchPage ==
  /\ CrawlOnly
  /\ cpc = "page"
  /\ \E out \in PageOutcomes(creator_urls[ci], offset) : PageStep(out)

\* CrawlerStoppedError leaves crawl_creator and main
Propagate ==
  /\ CrawlOnly
  /\ cpc = "raised"
  /\ cpc' = AfterStopped
  /\ ci' = IF AfterStopped = "main" THEN ci + 1 ELSE ci
  /\ UNCHANGED <<consecutive_403_count, category, offset, latest_time_in_db,
                 incremental, start_timestamp, end_timestamp, requests,
                 trailing403, lastOutcome, tripped, W0, content, creators,
                 waited>>
  /\ passed' = {}
  /\ lastPage' = NoPage

CrawlNext ==
  \/ MainLoop
  \/ \E out \in InfoOutcomes : GetCreatorInfo(out)
  \/ \E out \in InfoOutcomes : RequestHtml(out)
  \/ FetchPage
  \/ Propagate

\* ========================================================= tag_articles.py

\* texts, keywords and symbols are sequences of characters

\* the keyword k occurs in text at position i
OccursAt(k, text, i) ==
  /\ i + Len(k) - 1 <= Len(text)
  /\ \A j \in 1..Len(k) : text[i + j - 1] = k[j]

\* len(re.findall(re.escape(keyword), text)) for a non-empty keyword: the
\* occurrences found from position i on, leftmost first, not overlapping
RECURSIVE CountFrom(_, _, _)
CountFrom(k, text, i) ==
  IF i > Len(text) THEN 0
  ELSE IF OccursAt(k, text, i) THEN 1 + CountFrom(k, text, i + Len(k))
  ELSE CountFrom(k, text, i + 1)

\* keywords[key].append(symbol), key a new key or a known one; the dict is
\* a sequence of entries in insertion order
AddKeyword(dict, key, symbol) ==
  IF \E n \in DOMAIN dict : dict[n].keyword = key
    THEN [n \in DOMAIN dict |->
            IF dict[n].keyword = key
              THEN [dict[n] EXCEPT !.symbols = Append(@, symbol)]
              ELSE dict[n]]
    ELSE Append(dict, [keyword |-> key, symbols |-> <<symbol>>])

\* load_stock_keywords: the loop over the rows of stock_basic from row i on
RECURSIVE LoadBasic(_, _, _)
LoadBasic(rows, i, dict) ==
  IF i > Len(rows) THEN dict
  ELSE LET d1 == AddKeyword(dict, rows[i].symbol, rows[i].symbol)
           d2 == IF rows[i].name # <<>>
                   THEN AddKeyword(d1, rows[i].name, rows[i].symbol) ELSE d1
       IN LoadBasic(rows, i + 1, d2)

\* load_stock_keywords: the loop over the rows of stock_aliases from row i on
RECURSIVE LoadAliases(_, _, _)
LoadAliases(rows, i, dict) ==
  IF i > Len(rows) THEN dict
  ELSE LoadAliases(rows, i + 1,
         IF rows[i].alias # <<>>
           THEN AddKeyword(dict, rows[i].alias, rows[i].symbol) ELSE dict)

load_stock_keywords(basic, aliases) ==
  LoadAliases(aliases, 1, LoadBasic(basic, 1, <<>>))

\* a dict as a function: d with key k set to v
Put(d, k, v) == [x \in DOMAIN d \cup {k} |-> IF x = k THEN v ELSE d[x]]
EmptyDict == [x \in {} |-> 0]

\* match_keywords: "if count > matches[symbol][0]"
KeepHigherCount(count, kept) == count > kept

\* match_keywords: "for symbol in symbols", from symbol j on
RECURSIVE MatchSymbols(_, _, _, _, _)
MatchSymbols(symbols, j, count, keyword, matches) ==
  IF j > Len(symbols) THEN matches
  ELSE LET symbol == symbols[j] IN
    MatchSymbols(symbols, j + 1, count, keyword,
      IF symbol \in DOMAIN matches
        THEN IF KeepHigherCount(count, matches[symbol][1])
               THEN Put(matches, symbol, <<count, keyword>>)
               ELSE matches
        ELSE Put(matches, symbol, <<count, keyword>>))

\* match_keywords: "for keyword, symbols in keywords.items()", from entry n on
RECURSIVE MatchFrom(_, _, _, _)
MatchFrom(text, keywords, n, matches) ==
  IF n > Len(keywords) THEN matches
  ELSE LET keyword == keywords[n].keyword
           count == CountFrom(keyword, text, 1)
       IN IF Len(keyword) < MIN_KEYWORD_LEN
            THEN MatchFrom(text, keywords, n + 1, matches)
          ELSE IF count > 0
            THEN MatchFrom(text, keywords, n + 1,
                   MatchSymbols(keywords[n].symbols, 1, count, keyword,
                                matches))
          ELSE MatchFrom(text, keywords, n + 1, matches)

\* match_keywords: symbol -> <<count, matched keyword>>
match_keywords(text, keywords) ==
  IF text = <<>> THEN EmptyDict ELSE MatchFrom(text, keywords, 1, EmptyDict)

\* tag_articles: combined_scores, symbol -> <<score, keyword>>, of the title
\* matches and the content matches
CombineScores(title_matches, content_matches) ==
  [symbol \in DOMAIN title_matches \cup DOMAIN content_matches |->
     IF symbol \in DOMAIN title_matches
       THEN IF symbol \in DOMAIN content_matches
              THEN <<title_matches[symbol][1] * TITLE_WEIGHT
                       + content_matches[symbol][1] * CONTENT_WEIGHT,
                     title_matches[symbol][2]>>
              ELSE <<title_matches[symbol][1] * TITLE_WEIGHT,
                     title_matches[symbol][2]>>
       ELSE <<content_matches[symbol][1] * CONTENT_WEIGHT,
              content_matches[symbol][2]>>]

\* the stock tables the keywords are loaded from
S1 == <<"6", "0">>
S2 == <<"0", "0">>
stock_basic ==
  <<[symbol |-> S1, name |-> <<"m", "t">>],
    [symbol |-> S2, name |-> <<"w", "l">>]>>
stock_aliases ==
  <<[symbol |-> S1, alias |-> <<"m">>],
    [symbol |-> S1, alias |-> <<"b", "j">>],
    [symbol |-> S2, alias |-> <<"b", "j">>]>>

\* pieces of text: the keywords of two characters and a filler
Blocks == {<<"m", "t">>, <<"6", "0">>, <<"b", "j">>, <<"w", "l">>, <<"x">>}
\* texts of at most n pieces
RECURSIVE TextsUpTo(_)
TextsUpTo(n) ==
  IF n = 0 THEN {<<>>}
  ELSE TextsUpTo(n - 1)
         \cup {t \o b : t \in TextsUpTo(n - 1), b \in Blocks}

\* the piece b written n times
RECURSIVE Repeat(_, _)
Repeat(b, n) == IF n = 0 THEN <<>> ELSE b \o Repeat(b, n - 1)
\* bodies: the short texts, and one piece repeated
BodyTexts ==
  TextsUpTo(MaxBlocks) \cup {Repeat(b, n) : b \in Blocks, n \in 1..MaxRepeat}

\* the day datetime.now() falls on
Today == MaxTime + 1
\* timestamp_to_date; a created_time counts days
timestamp_to_date(timestamp) == IF timestamp = 0 THEN Today ELSE timestamp

\* align_to_trading_day; a date counts days, range(1, 10) is 1..9
align_to_trading_day(date_str, days) ==
  IF days = {} THEN date_str
  ELSE IF date_str \in days THEN date_str
  ELSE IF \E i \in 1..(LOOKBACK_STOP - 1) : date_str - i \in days
    THEN date_str
           - (CHOOSE i \in 1..(LOOKBACK_STOP - 1) :
                /\ date_str - i \in days
                /\ \A j \in 1..(i - 1) : date_str - j \notin days)
  ELSE date_str

\* get_untagged_articles: the selected rows as dicts, in table order
ArticleDict(r) ==
  [content_id |-> r.content_id, title |-> r.title,
   content_text |-> r.content_text, created_time |-> r.created_time]
Selects(tbl, all) == {r \in tbl : all \/ r.is_tagged = 0}
RECURSIVE SeqOfRows(_)
SeqOfRows(rows) ==
  IF rows = {} THEN <<>>
  ELSE LET r == CHOOSE x \in rows :
                  \A y \in rows : x.content_id = "c1" \/ y.content_id # "c1"
       IN <<ArticleDict(r)>> \o SeqOfRows(rows \ {r})
get_untagged_articles(tbl, all) == SeqOfRows(Selects(tbl, all))

\* save_article_stock_ref: UPDATE the rows of the pair when one exists, else
\* INSERT
save_article_stock_ref(tbl, row) ==
  IF \E n \in DOMAIN tbl : /\ tbl[n].article_id = row.article_id
                            /\ tbl[n].stock_symbol = row.stock_symbol
    THEN [n \in DOMAIN tbl |->
            IF /\ tbl[n].article_id = row.article_id
               /\ tbl[n].stock_symbol = row.stock_symbol
              THEN row ELSE tbl[n]]
    ELSE Append(tbl, row)

\* tag_articles: "for symbol, (score, keyword) in combined_scores.items()",
\* over the symbols not yet visited; the rows of different symbols do not
\* depend on the order of the visits
RECURSIVE SaveRefs(_, _, _, _, _)
SaveRefs(tbl, article, scores, left, dates) ==
  IF left = {} THEN tbl
  ELSE LET symbol == CHOOSE x \in left : \A y \in left : x = S1 \/ y # S1
           next ==
             IF scores[symbol][1] >= MIN_SCORE_THRESHOLD
               THEN save_article_stock_ref(tbl,
                      [article_id |-> article.content_id,
                       stock_symbol |-> symbol,
                       display_date |-> dates[1],
                       original_date |-> dates[2],
                       match_keyword |-> scores[symbol][2],
                       match_score |-> scores[symbol][1]])
               ELSE tbl
       IN SaveRefs(next, article, scores, left \ {symbol}, dates)

\* tag_articles: the association rows after the body of the loop for one
\* article
TagOne(tbl, article, keywords, days) ==
  LET original_date == timestamp_to_date(article.created_time)
      display_date == align_to_trading_day(original_date, days)
      scores == CombineScores(match_keywords(article.title, keywords),
                              match_keywords(article.content_text, keywords))
  IN SaveRefs(tbl, article, scores, DOMAIN scores,
              <<display_date, original_date>>)

\* clear_existing_refs: UPDATE zhihu_content SET is_tagged = 0
ResetTagged(tbl) == {[r EXCEPT !.is_tagged = 0] : r \in tbl}

\* str.strip() of a symbol of the request
RECURSIVE LStrip(_)
LStrip(x) == IF x # <<>> /\ Head(x) = " " THEN LStrip(Tail(x)) ELSE x
RECURSIVE RStrip(_)
RStrip(x) ==
  IF x # <<>> /\ x[Len(x)] = " " THEN RStrip(SubSeq(x, 1, Len(x) - 1)) ELSE x
Strip(x) == RStrip(LStrip(x))

\* an override that deletes nothing
KeepRefs(tbl, id) == tbl
\* db.query(ArticleStockRef).filter(article_id == content_id).delete()
DeleteRefs(tbl, id) == SelectSeq(tbl, LAMBDA r : r.article_id # id)

\* update_article_stocks: the rows added for the symbols from item i on
RECURSIVE ManualRefs(_, _, _, _)
ManualRefs(symbols, i, id, article_date) ==
  IF i > Len(symbols) THEN <<>>
  ELSE (IF Strip(symbols[i]) # <<>>
          THEN <<[article_id |-> id, stock_symbol |-> Strip(symbols[i]),
                  display_date |-> article_date,
                  original_date |-> article_date,
                  match_keyword |-> "manual",
                  match_score |-> MANUAL_SCORE]>>
          ELSE <<>>)
         \o ManualRefs(symbols, i + 1, id, article_date)

\* update_article_stocks on the tables: 404 without the article, else the
\* rows of the article are replaced; article_stock_ref of init_db.py has no
\* unique index, so the commit takes every row
update_article_stocks(tbl, articles, id, symbols) ==
  IF ~\E a \in articles : a.content_id = id THEN tbl
  ELSE LET article == CHOOSE a \in articles : a.content_id = id
           article_date == IF article.created_time # 0
                             THEN article.created_time ELSE EmptyDate
       IN DeleteRefs(tbl, id) \o ManualRefs(symbols, 1, id, article_date)

\* the keyword dict of the pass
Keywords == load_stock_keywords(stock_basic, stock_aliases)
Symbols == {S1, S2}

\* a row of zhihu_content as the tagger reads it
TagRow(id, t, title, text, tagged) ==
  [content_id |-> id, created_time |-> t, title |-> title,
   content_text |-> text, is_tagged |-> tagged]

\* the tagger and the override while another part is observed
TagIdle ==
  /\ refs = <<>>
  /\ tpc = "idle"
  /\ tag_all = FALSE
  /\ todo = <<>>
  /\ trading_days = {}
  /\ passes = 0
  /\ overrides = 0
  /\ selected = {}
  /\ wrote = FALSE
  /\ cleared = FALSE
  /\ lastOverride = <<>>
  /\ date_in = 0
  /\ date_out = NoTime

\* a pass that never clears
AfterLoadNoClear(all) == "select"
\* the position after the keywords and the trading days are loaded
AfterLoad(all) == IF all THEN "clear" ELSE "select"

\* tag_articles(tag_all): load_stock_keywords, return when there is none,
\* load_trading_days
TagStart(all) ==
  /\ TagOnly
  /\ tpc = "idle"
  /\ passes < MaxPasses
  /\ passes' = passes + 1
  /\ tag_all' = all
  /\ tpc' = IF Keywords = <<>> THEN "idle" ELSE AfterLoad(all)
  /\ wrote' = FALSE
  /\ cleared' = FALSE
  /\ lastOverride' = <<>>
  /\ UNCHANGED <<content, refs, todo, trading_days, overrides, selected,
                 date_in, date_out>>

\* clear_existing_refs: both statements in one commit
TagClear ==
  /\ TagOnly
  /\ tpc = "clear"
  /\ refs' = <<>>
  /\ content' = ResetTagged(content)
  /\ cleared' = TRUE
  /\ tpc' = "select"
  /\ lastOverride' = <<>>
  /\ UNCHANGED <<tag_all, todo, trading_days, passes, overrides, selected,
                 wrote, date_in, date_out>>

\* get_untagged_articles, and the return when it finds nothing
TagSelect ==
  /\ TagOnly
  /\ tpc = "select"
  /\ todo' = get_untagged_articles(content, tag_all)
  /\ selected' = {r.content_id : r \in Selects(content, tag_all)}
  /\ tpc' = IF todo' = <<>> THEN "idle" ELSE "loop"
  /\ lastOverride' = <<>>
  /\ UNCHANGED <<content, refs, tag_all, trading_days, passes, overrides,
                 wrote, cleared, date_in, date_out>>

\* a loop that marks an article only when a row was saved for it
MarkIfMatched(tbl, id, before, after) ==
  IF after # before THEN mark_article_tagged(tbl, id) ELSE tbl
\* tag_articles: "mark_article_tagged(content_id)" closes the body of the
\* loop whatever was saved
MarkAlways(tbl, id, before, after) == mark_article_tagged(tbl, id)

\* the body of the loop for the next article: its rows are saved, then it is
\* marked
TagItem ==
  /\ TagOnly
  /\ tpc = "loop"
  /\ LET article == Head(todo) IN
       /\ refs' = TagOne(refs, article, Keywords, trading_days)
       /\ content' = MarkAlways(content, article.content_id, refs, refs')
  /\ wrote' = TRUE
  /\ todo' = Tail(todo)
  /\ tpc' = IF Tail(todo) = <<>> THEN "idle" ELSE "loop"
  /\ lastOverride' = <<>>
  /\ UNCHANGED <<tag_all, trading_days, passes, overrides, selected, cleared,
                 date_in, date_out>>

\* the symbols a request may carry
SymbolInputs == {S1, S2, <<" ", "6", "0">>, <<" ">>}

\* PUT /sentiment/articles/{content_id}/stocks
Override(id, symbols) ==
  /\ TagOnly
  /\ overrides < MaxOverrides
  /\ overrides' = overrides + 1
  /\ refs' = update_article_stocks(refs, content, id, symbols)
  /\ lastOverride' = <<id, symbols>>
  /\ UNCHANGED <<content, tpc, tag_all, todo, trading_days, passes, selected,
                 wrote, cleared, date_in, date_out>>

\* align_to_trading_day(date_in, trading_days)
Align ==
  /\ TagOnly
  /\ date_out = NoTime
  /\ date_out' = align_to_trading_day(date_in, trading_days)
  /\ UNCHANGED <<content, refs, tpc, tag_all, todo, trading_days, passes,
                 overrides, selected, wrote, cleared, lastOverride, date_in>>

\* one article with every title of at most MaxBlocks pieces and every body
ScoreInit ==
  /\ backend = "sqlite"
  /\ clock = 0
  /\ creators = {}
  /\ lastSave = <<>>
  /\ \E title \in TextsUpTo(MaxBlocks), text \in BodyTexts :
       content = {TagRow("c1", 1, title, text, 0)}
  /\ refs = <<>>
  /\ tpc = "idle"
  /\ tag_all = FALSE
  /\ todo = <<>>
  /\ trading_days = {1}
  /\ passes = 0
  /\ overrides = 0
  /\ selected = {}
  /\ wrote = FALSE
  /\ cleared = FALSE
  /\ lastOverride = <<>>
  /\ date_in = 0
  /\ date_out = NoTime

ScoreNext ==
  \/ \E all \in BOOLEAN : TagStart(all)
  \/ TagClear
  \/ TagSelect
  \/ TagItem

\* the texts of the articles when passes and overrides are observed
SmallTexts ==
  {<<(<<"m", "t">>), (<<"m", "t">>)>>,
   <<(<<"b", "j">>), (<<>>)>>,
   <<(<<"x">>), (<<"x">>)>>}

\* c1 is stored and dated; c2, when stored, has no created_time
TagTables ==
  {{TagRow("c1", 1, x[1], x[2], g)} : x \in SmallTexts, g \in {0, 1}}
    \cup {{TagRow("c1", 1, x[1], x[2], g), TagRow("c2", 0, y[1], y[2], h)} :
            x \in SmallTexts, g \in {0, 1}, y \in SmallTexts, h \in {0, 1}}

TagInit ==
  /\ backend = "sqlite"
  /\ clock = 0
  /\ creators = {}
  /\ lastSave = <<>>
  /\ content \in TagTables
  /\ refs = <<>>
  /\ tpc = "idle"
  /\ tag_all = FALSE
  /\ todo = <<>>
  /\ trading_days \in {{}, {0}}
  /\ passes = 0
  /\ overrides = 0
  /\ selected = {}
  /\ wrote = FALSE
  /\ cleared = FALSE
  /\ lastOverride = <<>>
  /\ date_in = 0
  /\ date_out = NoTime

TagNext ==
  \/ \E all \in BOOLEAN : TagStart(all)
  \/ TagClear
  \/ TagSelect
  \/ TagItem
  \/ \E id \in ContentIds, symbols \in SeqsUpTo(SymbolInputs, MaxSymbols) :
       Override(id, symbols)

\* a date and a calendar of at most two trading days
AlignInit ==
  /\ backend = "sqlite"
  /\ clock = 0
  /\ creators = {}
  /\ lastSave = <<>>
  /\ content = {}
  /\ refs = <<>>
  /\ tpc = "idle"
  /\ tag_all = FALSE
  /\ todo = <<>>
  /\ trading_days \in {d \in SUBSET (0..MaxDay) : Cardinality(d) <= 2}
  /\ passes = 0
  /\ overrides = 0
  /\ selected = {}
  /\ wrote = FALSE
  /\ cleared = FALSE
  /\ lastOverride = <<>>
  /\ date_in \in 0..MaxDay
  /\ date_out = NoTime

AlignNext ==
  \/ Align

\* ============================================================ scraper.py

\* the instruments the batch can hold: a symbol (its digits) and the asset
\* type stock_basic gives it
Instruments ==
  { [symbol |-> <<"0", "1">>, asset_type |-> "stock"],
    [symbol |-> <<"6", "1">>, asset_type |-> "stock"],
    [symbol |-> <<"8", "1">>, asset_type |-> "stock"],
    [symbol |-> <<"5", "1">>, asset_type |-> "etf"] }

\* the symbol fetch_stock_hist_with_retry hands to the secondary source
netease_symbol(symbol) ==
  IF Head(symbol) \in {"0", "3"} THEN <<"0">> \o symbol
  ELSE IF Head(symbol) \in {"6", "9"} THEN <<"1">> \o symbol
  ELSE symbol

\* what one call of a data source can do
PrimaryOutcomes == {"data", "empty", "KeyError", "error"}
SecondaryOutcomes == {"data", "empty", "error"}

NoCalls == [primary |-> 0, secondary |-> 0, sent |-> <<>>]

ScrapeIdle ==
  /\ batch = <<>>
  /\ fresh = {}
  /\ spc = "end"
  /\ si = 1
  /\ attempt = 0
  /\ calls = <<>>
  /\ outcome = <<>>
  /\ quotes = {}

\* update_daily_quotes is entered with symbol_types (a dict: the symbols are
\* distinct) and a quote table in which some symbols are already up to date
ScrapeInit ==
  /\ batch \in { s \in UNION { [1..n -> Instruments] : n \in 1..MaxAssets } :
                   \A i, j \in DOMAIN s : i # j => s[i].symbol # s[j].symbol }
  /\ fresh \in SUBSET { batch[i].symbol : i \in DOMAIN batch }
  /\ spc = "loop"
  /\ si = 1
  /\ attempt = 0
  /\ calls = [i \in DOMAIN batch |-> NoCalls]
  /\ outcome = [i \in DOMAIN batch |-> "none"]
  /\ quotes = {}

\* the rows of df are inserted; an exception in the body is caught by the
\* loop's own except clause
Insert(raises) ==
  /\ quotes' = IF raises THEN quotes ELSE quotes \cup {batch[si].symbol}
  /\ outcome' = [outcome EXCEPT ![si] = IF raises THEN "failed" ELSE "updated"]

\* where the loop goes when an instrument yielded no data
AfterGiveUpAbort == "end"

AfterGiveUp == "loop"

\* the head of the for loop, up to the call of the data source
NextAsset ==
  /\ spc = "loop"
  /\ attempt' = 0
  /\ IF si > Len(batch)
       THEN /\ spc' = "end"
            /\ UNCHANGED <<si, calls, outcome, quotes>>
     ELSE IF batch[si].symbol \in fresh
       THEN /\ outcome' = [outcome EXCEPT ![si] = "skipped"]
            /\ si' = si + 1
            /\ UNCHANGED <<spc, calls, quotes>>
     ELSE IF batch[si].asset_type = "stock"
       THEN /\ spc' = "primary"
            /\ UNCHANGED <<si, calls, outcome, quotes>>
     ELSE \E out \in SecondaryOutcomes, raises \in BOOLEAN :
            /\ IF out = "data" THEN Insert(raises)
               ELSE /\ outcome' = [outcome EXCEPT ![si] =
                                     IF out = "empty" THEN "empty" ELSE "failed"]
                    /\ UNCHANGED quotes
            /\ si' = si + 1
            /\ spc' = IF out = "data" THEN "loop" ELSE AfterGiveUp
            /\ UNCHANGED calls
  /\ UNCHANGED <<batch, fresh>>

\* one turn of the retry loop of fetch_stock_hist_with_retry
TryPrimary(out) ==
  /\ spc = "primary"
  /\ calls' = [calls EXCEPT ![si].primary = @ + 1]
  /\ IF out = "data"
       THEN /\ \E raises \in BOOLEAN : Insert(raises)
            /\ si' = si + 1
            /\ spc' = "loop"
            /\ attempt' = 0
     ELSE /\ spc' = IF out = "KeyError" \/ attempt + 1 >= max_retries
                      THEN "secondary" ELSE "primary"
          /\ attempt' = attempt + 1
          /\ UNCHANGED <<si, outcome, quotes>>
  /\ UNCHANGED <<batch, fresh>>

\* the fallback of fetch_stock_hist_with_retry and the rest of the loop body
TrySecondary(out) ==
  /\ spc = "secondary"
  /\ calls' = [calls EXCEPT ![si].secondary = @ + 1,
                            ![si].sent = netease_symbol(batch[si].symbol)]
  /\ IF out = "data"
       THEN /\ \E raises \in BOOLEAN : Insert(raises)
            /\ spc' = "loop"
     ELSE /\ outcome' = [outcome EXCEPT ![si] = "empty"]
          /\ spc' = AfterGiveUp
          /\ UNCHANGED quotes
  /\ si' = si + 1
  /\ attempt' = 0
  /\ UNCHANGED <<batch, fresh>>

ScrapeNext ==
  \/ NextAsset /\ ScrapeOnly
  \/ \E out \in PrimaryOutcomes : TryPrimary(out) /\ ScrapeOnly
  \/ \E out \in SecondaryOutcomes : TrySecondary(out) /\ ScrapeOnly

\* ===================================== crawler_zhihu.py, a crawl run again

\* the creator the two runs crawl: the last of creator_urls
ResumeToken == creator_urls[Len(creator_urls)]

\* the content id of the i-th item of a category
ItemId(cat, i) == cat \o ToString(i)

\* sequences of n times, newest first
Descending(n) ==
  {q \in [1..n -> 0..MaxTime] : \A i \in 1..n - 1 : q[i] >= q[i + 1]}

\* what the platform holds of the creator, per category in the order of its
\* pages (newest first); it does not change between the two runs
Timelines ==
  UNION {
    {[answer |-> [i \in 1..na |->
                    [content_id |-> ItemId("answer", i), created_time |-> ta[i],
                     body |-> "b1", author_id |-> RealId(ResumeToken)]],
      article |-> [i \in 1..nr |->
                     [content_id |-> ItemId("article", i),
                      created_time |-> tr[i], body |-> "b1",
                      author_id |-> RealId(ResumeToken)]]] :
       ta \in Descending(na), tr \in Descending(nr)} :
    na \in 0..MaxAnswers, nr \in 0..MaxArticles}

RemoteItems == Range(remote["answer"]) \cup Range(remote["article"])

\* the response to the page request of category cat at offset off
RemotePage(cat, off) ==
  LET from == (off \div PAGE_STEP) * MaxPageItems
      n == Len(remote[cat])
      to == IF from + MaxPageItems < n THEN from + MaxPageItems ELSE n
  IN [failed |-> FALSE, status |-> 200,
      data |-> SubSeq(remote[cat], from + 1, to), is_end |-> to >= n]

\* the first run may meet any failure; the second run is answered
RemoteOutcomes(cat, off) ==
  {RemotePage(cat, off)}
    \cup IF run = 1
           THEN {[failed |-> TRUE]}
                  \cup {[failed |-> FALSE, status |-> s, data |-> <<>>,
                         is_end |-> TRUE] : s \in Statuses}
           ELSE {}

Answered(out) == run = 1 \/ (~out.failed /\ out.status = 200 /\ out.valid)

NoFirst == [how |-> "none", stored |-> {}]

ResumeIdle ==
  /\ remote = [answer |-> <<>>, article |-> <<>>]
  /\ run = 1
  /\ first = NoFirst

\* main() for one creator, nothing of whom is stored yet
ResumeInit ==
  /\ remote \in Timelines
  /\ run = 1
  /\ first = NoFirst
  /\ cpc = "main"
  /\ ci = Len(creator_urls)
  /\ consecutive_403_count = 0
  /\ category = "answer"
  /\ offset = 0
  /\ latest_time_in_db = NoTime
  /\ incremental \in BOOLEAN
  /\ start_timestamp = NoTime
  /\ end_timestamp = NoTime
  /\ requests = 0
  /\ trailing403 = 0
  /\ lastOutcome = "none"
  /\ tripped = FALSE
  /\ passed = {}
  /\ lastPage = NoPage
  /\ waited = FALSE
  /\ backend \in {"sqlite", "postgres"}
  /\ clock = 0
  /\ lastSave = <<>>
  /\ creators = {[user_id |-> tok, url_token |-> tok] : tok \in CrawlTokens}
  /\ content = {}
  /\ W0 = [tok \in CrawlTokens |-> NoTime]

ResumeInfo ==
  \E out \in InfoOutcomes : Answered(out) /\ GetCreatorInfo(out)

ResumeHtml ==
  \E out \in InfoOutcomes : Answered(out) /\ RequestHtml(out)

ResumeFetch ==
  /\ CrawlOnly
  /\ cpc = "page"
  /\ \E out \in RemoteOutcomes(category, offset) : PageStep(out)

\* the crawler process is killed during the first run (with one creator the
\* governor cannot count three 403 responses in a row)
Kill ==
  /\ CrawlOnly
  /\ run = 1
  /\ cpc \notin {"done", "aborted"}
  /\ cpc' = "aborted"
  /\ passed' = {}
  /\ lastPage' = NoPage
  /\ UNCHANGED <<ci, consecutive_403_count, category, offset,
                 latest_time_in_db, incremental, start_timestamp,
                 end_timestamp, requests, trailing403, lastOutcome, tripped,
                 W0, content, creators, waited>>

\* the crawler is started again, incremental, on the same store
Rerun ==
  /\ run = 1
  /\ cpc \in {"done", "aborted"}
  /\ run' = 2
  /\ first' = [how |-> cpc, stored |-> {r.content_id : r \in content}]
  /\ cpc' = "main"
  /\ ci' = Len(creator_urls)
  /\ consecutive_403_count' = 0
  /\ category' = "answer"
  /\ offset' = 0
  /\ latest_time_in_db' = NoTime
  /\ incremental' = TRUE
  /\ requests' = 0
  /\ trailing403' = 0
  /\ lastOutcome' = "none"
  /\ tripped' = FALSE
  /\ passed' = {}
  /\ lastPage' = NoPage
  /\ waited' = FALSE
  /\ W0' = [tok \in CrawlTokens |-> StoredMax(content, RealId(tok))]
  /\ UNCHANGED <<start_timestamp, end_timestamp, content, creators, remote,
                 syncVars, backend, clock, lastSave, tagVars, crashed,
                 scrapeVars>>

ResumeNext ==
  \/ MainLoop
  \/ ResumeInfo
  \/ ResumeHtml
  \/ ResumeFetch
  \/ Kill
  \/ Rerun

\* ======================================================== specifications

InitSync == SyncInit /\ StoreIdle /\ CrawlIdle /\ TagIdle /\ ScrapeIdle /\ ResumeIdle
SpecSync == InitSync /\ [][SyncNext]_vars

InitStore == StoreInit /\ SyncInit /\ CrawlIdle /\ TagIdle /\ ScrapeIdle /\ ResumeIdle
SpecStore == InitStore /\ [][StoreNext]_vars

InitCrawl == CrawlInit /\ SyncInit /\ TagIdle /\ ScrapeIdle /\ ResumeIdle
SpecCrawl == InitCrawl /\ [][CrawlNext]_vars

SpecCrash == InitSync /\ [][CrashNext]_vars

\* a background task the server has accepted runs to its end: each step of
\* run_sync_task and run_script is taken once it can be, and the subprocess
\* closes its output after finitely many lines
JobStep(w) ==
  /\ pc[w][1] \in JobPcs
  /\ \/ TaskBegin(w) \/ TaskInfo(w) \/ ScriptClear(w) \/ ScriptPopen(w)
     \/ ScriptLine(w) \/ ScriptFlush(w) \/ ScriptEof(w) \/ ScriptFinal(w)
     \/ ScriptExcRead(w) \/ ScriptExcUpdate(w) \/ TaskReadFinal(w)
     \/ TaskDone(w) \/ TaskFinally(w) \/ UpdTruncate(w) \/ UpdDump(w)

\* a start request served while no other background task is in the server
StartAlone(w, t) ==
  /\ StartRequest(w, t)
  /\ Cardinality(Jobs') <= 1

\* one background task at a time, with the requests that arrive meanwhile
JobNext ==
  \E w \in Workers :
    \/ \E t \in TaskTypes : StartAlone(w, t)
    \/ StopRequest(w)
    \/ StopUpdate(w)
    \/ TaskBegin(w)
    \/ TaskInfo(w)
    \/ ScriptClear(w)
    \/ ScriptPopen(w)
    \/ ScriptLine(w)
    \/ ScriptFlush(w)
    \/ ScriptEof(w)
    \/ ScriptFinal(w)
    \/ ScriptExcRead(w)
    \/ ScriptExcUpdate(w)
    \/ TaskReadFinal(w)
    \/ TaskDone(w)
    \/ TaskFinally(w)
    \/ UpdTruncate(w)
    \/ UpdDump(w)

SpecJob ==
  InitSync /\ [][JobNext]_vars /\ \A w \in Workers : WF_vars(JobStep(w))

InitScore == ScoreInit /\ SyncInit /\ CrawlIdle /\ ScrapeIdle /\ ResumeIdle
SpecScore == InitScore /\ [][ScoreNext]_vars

InitTag == TagInit /\ SyncInit /\ CrawlIdle /\ ScrapeIdle /\ ResumeIdle
SpecTag == InitTag /\ [][TagNext]_vars

\* a manual override served while no tagging pass is in progress
OverrideBetweenPasses(id, symbols) ==
  /\ tpc = "idle"
  /\ Override(id, symbols)

\* tagging passes with the manual overrides made between them
OverrideNext ==
  \/ \E all \in BOOLEAN : TagStart(all)
  \/ TagClear
  \/ TagSelect
  \/ TagItem
  \/ \E id \in ContentIds, symbols \in SeqsUpTo(SymbolInputs, MaxSymbols) :
       OverrideBetweenPasses(id, symbols)

SpecOverride == InitTag /\ [][OverrideNext]_vars

InitAlign == AlignInit /\ SyncInit /\ CrawlIdle /\ ScrapeIdle /\ ResumeIdle
SpecAlign == InitAlign /\ [][AlignNext]_vars

InitScrape == ScrapeInit /\ SyncInit /\ StoreIdle /\ CrawlIdle /\ TagIdle /\ ResumeIdle
SpecScrape == InitScrape /\ [][ScrapeNext]_vars

InitResume == ResumeInit /\ SyncInit /\ TagIdle /\ ScrapeIdle
SpecResume == InitResume /\ [][ResumeNext]_vars

\* ================================================================ claims

\* a step that handles one start request
IsStartRequest == nreq' = nreq + 1 /\ stops' = stops
\* a step in which worker w completes the write of an _update_sync_state
CompletesUpdate(w) == pc[w][2] = "dump" /\ pc'[w] # pc[w]

\* C1: with no stop request issued, at most one sync job is admitted and
\* running at a time, whichever server processes handle the start requests.
C1_SingleFlight == stops = 0 => Cardinality(Jobs) <= 1

\* C2: a start request handled while the persisted state has is_running=true
\* is answered 400, schedules no background task and leaves the persisted
\* state unchanged.
C2_StartWhileRunningRejected ==
  [][(IsStartRequest /\ ReadState(file)["is_running"])
       => /\ resp' = [kind |-> "start", status |-> 400]
          /\ file' = file
          /\ pc' = pc
          /\ task' = task]_vars

C2_Witness ==
  /\ resp = [kind |-> "start", status |-> 400]
  /\ ReadState(file)["is_running"]

\* C3: a start request handled while the persisted state is idle is accepted
\* and schedules the task, and the first write of that task sets
\* is_running=true and current_task to the requested task name.
C3_StartWhileIdleRuns ==
  [][/\ (IsStartRequest /\ ~ReadState(file)["is_running"])
          => /\ resp' = [kind |-> "start", status |-> 200]
             /\ \E w \in Workers :
                  /\ At(w, "idle")
                  /\ pc'[w] = <<"t_begin", "call">>
                  /\ task'[w] \in TaskTypes
     /\ \A w \in Workers :
          (pc[w][1] = "t_begin" /\ CompletesUpdate(w))
            => /\ file'["is_running"] = TRUE
               /\ file'["current_task"] = task[w]
               /\ task[w] \in TaskTypes]_vars

C3_Witness ==
  /\ file # Unreadable
  /\ file["is_running"]
  /\ file["current_task"] = "update_market"
  /\ \E w \in Workers : pc[w][1] = "t_info" /\ task[w] = "update_market"

\* C4: concurrent _update_sync_state calls lose no update: every call leaves
\* in the file the content of the last completed write with only its own
\* kwargs changed, every field present.
C4_NoUpdateLost ==
  [][\A w \in Workers :
       CompletesUpdate(w)
         => /\ file' = Update(ReadState(committed), kw[w])
            /\ DOMAIN file' = Fields]_vars


\* C5: CrawlerStoppedError is raised exactly when the third consecutive 403
\* response is observed, no request is issued after it, and any response
\* other than 403 resets consecutive_403_count to 0.
C5_GovernorTripsAtThird403 ==
  /\ [](tripped <=> trailing403 = 3)
  /\ [](trailing403 <= 3)
  /\ [][trailing403 = 3 => requests' = requests]_vars
  /\ [][(requests' # requests /\ lastOutcome' = "other")
          => consecutive_403_count' = 0]_vars

\* the governor has tripped after a response other than 403 had reset a
\* counter of two
C5_Witness ==
  /\ tripped
  /\ requests = 6
  /\ lastOutcome = "403"

\* C6: once the governor has tripped the run aborts: no request is issued
\* and nothing is stored any more, for the current creator or a later one.
C6_TripAbortsRun ==
  /\ [][tripped => /\ requests' = requests
                   /\ content' = content
                   /\ creators' = creators
                   /\ cpc' = "aborted"]_vars
  /\ [](cpc = "done" => ~tripped)

\* the run has ended by the trip, content of an earlier creator stored and a
\* later creator still to crawl
C6_Witness ==
  /\ tripped
  /\ cpc = "aborted"
  /\ ci < Len(creator_urls)
  /\ \E r \in creators : r.user_id = RealId("ta")

\* C7: for a creator with watermark W stored when the run began, a crawl run
\* without --full hands no item with created_time <= W to save_content.
C7_IncrementalSkipsKnown ==
  incremental =>
    \A x \in passed :
      W0[x.tok] # NoTime => x.created_time > W0[x.tok]

\* C7 (amended): the same with neither --full nor --start-date given and W
\* the non-zero time get_latest_content_time_for_creator returns.
C7_IncrementalSkipsKnownNoWindow ==
  (incremental /\ ~Truthy(start_timestamp)) =>
    \A x \in passed :
      Truthy(W0[x.tok]) => x.created_time > W0[x.tok]

\* an incremental run without window has stored a new item of a creator
\* whose watermark is 1, from a page that also held a known item
C7_Witness ==
  /\ incremental
  /\ start_timestamp = NoTime
  /\ W0["ta"] = 1
  /\ passed = {[tok |-> "ta", created_time |-> 2]}
  /\ \E r \in content : r.content_id = "c1" /\ r.created_time = 2
  /\ category = "article"

\* C8: calling save_content twice with an identical payload leaves exactly
\* one row for the content_id, equal to the row the first call left.
C8_SaveContentIdempotent ==
  [][(Len(lastSave) = 2 /\ Len(lastSave') = 2 /\ lastSave'[1] = lastSave[1])
       => /\ lastSave'[2] = lastSave[2]
          /\ Cardinality({r \in content' :
                            r.content_id = lastSave[1].content_id}) = 1]_vars

\* C9: a content writer that writes a content_id already stored leaves the
\* stored content_id and the created_time stored at first sight unchanged.
C9_CreatedTimeImmutable ==
  [][\A r \in content :
       \E r2 \in content' :
         /\ r2.content_id = r.content_id
         /\ r2.created_time = r.created_time]_vars

\* C10: after any sequence of add_creator, save_creator and upload creator
\* upserts there is at most one creator row per url_token.
C10_OneCreatorPerUrlToken ==
  \A r1, r2 \in creators : r1.url_token = r2.url_token => r1 = r2

\* the stored article with content id id
ArticleOf(id) == CHOOSE r \in content : r.content_id = id

\* occurrences in title x 10 + occurrences in body x 1 of one keyword
Contribution(keyword, row) ==
  CountFrom(keyword, row.title, 1) * TITLE_WEIGHT
    + CountFrom(keyword, row.content_text, 1) * CONTENT_WEIGHT

\* the entries of the keyword dict, of at least 2 characters, that map to
\* symbol
KeywordsOf(symbol) ==
  {n \in DOMAIN Keywords :
     /\ Len(Keywords[n].keyword) >= MIN_KEYWORD_LEN
     /\ \E j \in DOMAIN Keywords[n].symbols : Keywords[n].symbols[j] = symbol}

\* the sum of the contributions of the entries in S
RECURSIVE SumContributions(_, _)
SumContributions(S, row) ==
  IF S = {} THEN 0
  ELSE LET n == CHOOSE x \in S : TRUE
       IN Contribution(Keywords[n].keyword, row)
            + SumContributions(S \ {n}, row)

\* C11: the stored match_score of an item and symbol is the sum, over all
\* keywords of at least 2 characters that map to the symbol, of occurrences
\* in the title x 10 + occurrences in the body x 1.
C11_ScoreIsSumOverKeywords ==
  \A n \in DOMAIN refs :
    refs[n].match_score
      = SumContributions(KeywordsOf(refs[n].stock_symbol),
                         ArticleOf(refs[n].article_id))

\* the most recent trading day 1 to 10 days before the date, else the date
AlignLookbackInclusive(date_str, days) ==
  IF days = {} THEN date_str
  ELSE IF date_str \in days THEN date_str
  ELSE IF \E i \in 1..LOOKBACK_STOP : date_str - i \in days
    THEN date_str
           - (CHOOSE i \in 1..LOOKBACK_STOP :
                /\ date_str - i \in days
                /\ \A j \in 1..(i - 1) : date_str - j \notin days)
  ELSE date_str

\* C12: align_to_trading_day returns the date when it is a trading day or
\* there is no trading day at all; otherwise the most recent trading day 1 to
\* 10 days before the date; and the date when there is none within 10 days.
C12_AlignWithinTenDays ==
  date_out # NoTime
    => date_out = AlignLookbackInclusive(date_in, trading_days)

\* the rows of article_stock_ref of the article id
RefsOf(tbl, id) == {n \in DOMAIN tbl : tbl[n].article_id = id}

\* C13: a manual override with symbol list L on a stored item leaves the
\* symbols of the item's rows equal to the stripped, non-blank symbols of L,
\* and each of the item's rows has match_keyword "manual" and match_score 100
\* (so no row of an earlier pass or override remains).
C13_OverrideReplacesAssociations ==
  [][(/\ lastOverride' # <<>>
      /\ \E a \in content : a.content_id = lastOverride'[1])
       => LET id == lastOverride'[1]
              L == lastOverride'[2]
          IN /\ {refs'[n].stock_symbol : n \in RefsOf(refs', id)}
                  = {Strip(L[i]) : i \in DOMAIN L} \ {<<>>}
             /\ \A n \in RefsOf(refs', id) :
                  /\ refs'[n].match_keyword = "manual"
                  /\ refs'[n].match_score = MANUAL_SCORE]_vars

\* an override with a padded and a blank symbol, on an item a pass had tagged
\* with two symbols
C13_Witness ==
  /\ lastOverride = <<"c1", << <<" ", "6", "0">>, <<" ">> >> >>
  /\ "c1" \in selected
  /\ wrote
  /\ ArticleOf("c1").title = <<"b", "j">>
  /\ ArticleOf("c1").is_tagged = 1
  /\ {refs[n].stock_symbol : n \in RefsOf(refs, "c1")} = {S1}

\* C14: after any sequence of tagging passes and manual overrides there is at
\* most one association row per pair of content id and stock symbol.
C14_OneRowPerPair ==
  \A n, k \in DOMAIN refs :
    (/\ refs[n].article_id = refs[k].article_id
     /\ refs[n].stock_symbol = refs[k].stock_symbol) => n = k

\* the server process crashed under a job whose running state was the last
\* completed write, and no stop was issued since
CrashedWhileRunning ==
  /\ crashed.happened
  /\ crashed.running
  /\ stops = crashed.stops

\* C15: after the process running a job crashed before the job's cleanup,
\* and until a stop is issued, the status reports is_running = true with the
\* job's task name and a start is rejected.
C15_CrashKeepsRunning ==
  CrashedWhileRunning
    => /\ get_sync_status["is_running"]
       /\ get_sync_status["current_task"] = crashed.task
       /\ ~StartAdmits(ReadState(file))

\* the larger of the title contribution and the body contribution of one
\* keyword
BestContribution(keyword, row) ==
  LET t == CountFrom(keyword, row.title, 1) * TITLE_WEIGHT
      b == CountFrom(keyword, row.content_text, 1) * CONTENT_WEIGHT
  IN IF t >= b THEN t ELSE b

\* the entry of the keyword dict with keyword k
EntryOf(k) == CHOOSE n \in DOMAIN Keywords : Keywords[n].keyword = k

\* C16: the stored match_keyword of an item and symbol is a keyword with the
\* highest score contribution among the keywords of the symbol, the
\* contribution of a keyword taken over title and body together or in the
\* text where it is larger.
C16_KeywordHasHighestContribution ==
  \A n \in DOMAIN refs :
    LET row == ArticleOf(refs[n].article_id)
        K == KeywordsOf(refs[n].stock_symbol)
        k == refs[n].match_keyword
    IN /\ EntryOf(k) \in K
       /\ \/ \A x \in K : Contribution(Keywords[x].keyword, row)
                              <= Contribution(k, row)
          \/ \A x \in K : BestContribution(Keywords[x].keyword, row)
                              <= BestContribution(k, row)

\* the content ids the pass still has to process
Pending == {todo[n].content_id : n \in DOMAIN todo}

PagesOf == MaxPages
\* the steps one creator can take from its position to the next creator
CreatorRank ==
  CASE cpc = "main" -> 2 * PagesOf + 3
    [] cpc = "info" -> 2 * PagesOf + 2
    [] cpc = "html" -> 2 * PagesOf + 1
    [] cpc = "page" ->
         (IF category = "answer" THEN PagesOf ELSE 0)
           + (PagesOf - offset \div PAGE_STEP)
    [] OTHER -> 0
\* a number that every step of the crawl makes smaller
Rank ==
  IF cpc \in {"done", "aborted"} THEN 0
  ELSE IF cpc = "raised" THEN 1
  ELSE 2 + (Len(creator_urls) + 1 - ci) * (2 * PagesOf + 4) + CreatorRank

\* C19: after a page that has the end-of-data flag, or no items, or an item
\* that fires the stop condition, no further page of that category of that
\* creator is requested; and the crawl terminates: every step makes a
\* natural number smaller.
C19_PageLoopEnds ==
  /\ [][/\ (/\ lastPage'.seen
                /\ \/ lastPage'.empty
                   \/ lastPage'.is_end
                   \/ lastPage'.should_stop)
               => /\ ~(cpc' = "page" /\ ci' = ci /\ category' = category)
                  /\ ci' >= ci
                  /\ (category = "article" => cpc' # "page")
          /\ Rank' < Rank]_vars
  /\ [](Rank >= 0)

\* a page held an item that fires the stop condition and, after it, an item
\* that was saved; the answers loop has ended and the articles loop begins
C19_Witness ==
  /\ lastPage.seen
  /\ lastPage.should_stop
  /\ ~lastPage.is_end
  /\ passed # {}
  /\ cpc = "page"
  /\ category = "article"
  /\ offset = 0

\* C20: between two consecutive requests of a crawl run a wait of
\* CRAWL_INTERVAL takes place: each request but the first is issued after
\* the request before it was followed by a sleep.
C20_WaitBetweenRequests ==
  [][(requests' = requests + 1 /\ requests > 0) => waited]_vars

\* C21: a page request that fails without tripping the governor (client
\* error, or a response other than 200) while pages of the category remain
\* skips that page only: the loop goes on with the next page of the same
\* category of the same creator.
C21_FailedPageSkippedOnly ==
  [][(/\ lastPage'.seen
      /\ lastOutcome' \in {"failed", "403"}
      /\ cpc' # "raised"
      /\ offset < PAGE_STEP * (MaxPages - 1))
       => /\ cpc' = "page"
          /\ ci' = ci
          /\ category' = category
          /\ offset' = offset + PAGE_STEP]_vars

\* C22: with a start and/or end time given, in incremental and in full mode,
\* no item created before the start or after the end is handed to
\* save_content; and with a start time given no watermark is loaded, so the
\* watermark stop condition is not applied.
C22_WindowFiltersAndPrecedes ==
  /\ \A x \in passed :
       /\ Truthy(start_timestamp) => x.created_time >= start_timestamp
       /\ Truthy(end_timestamp) => x.created_time <= end_timestamp
  /\ Truthy(start_timestamp) => latest_time_in_db = NoTime

\* an incremental run with a start time has saved an item inside the window
\* that is not newer than what the store held of its creator
C22_Witness ==
  /\ incremental
  /\ Truthy(start_timestamp)
  /\ Truthy(end_timestamp)
  /\ \E x \in passed :
       /\ Truthy(W0[x.tok])
       /\ x.created_time <= W0[x.tok]
       /\ x.created_time >= start_timestamp

\* C23: the update of stop() sets is_running = false and current_task = null,
\* sets log_output to the log stop() read plus the stop notice, and keeps the
\* progress and last_sync_at it finds in the state; no step of stop() changes
\* the position, the task or the output buffer of a worker that runs a job,
\* whose subprocess keeps running.
C23_StopFrame ==
  [][\A w \in Workers :
       /\ (At(w, "stop") /\ pc'[w] = <<"stop", "trunc">>)
            => /\ local'[w]["is_running"] = FALSE
               /\ local'[w]["current_task"] = None
               /\ local'[w]["log_output"]
                    = Append(snap[w]["log_output"], "stop")
               /\ local'[w]["progress"] = ReadState(file)["progress"]
               /\ local'[w]["last_sync_at"] = ReadState(file)["last_sync_at"]
       /\ (pc[w] = <<"stop", "dump">> /\ pc'[w] # pc[w])
            => /\ file' = local[w]
               /\ resp' = [kind |-> "stop", status |-> 200]
       /\ (pc[w][1] = "stop" /\ pc'[w] # pc[w])
            => \A v \in Workers \ {w} :
                 /\ pc'[v] = pc[v]
                 /\ task'[v] = task[v]
                 /\ buf'[v] = buf[v]]_vars

\* stop() has returned and the job it did not end has since written the
\* output of its subprocess to the log
C23_Witness ==
  /\ resp = [kind |-> "stop", status |-> 200]
  /\ file # Unreadable
  /\ ~file["is_running"]
  /\ file["current_task"] = None
  /\ \E w \in Workers :
       /\ At(w, "s_stream")
       /\ buf[w] # <<>>
       /\ file["log_output"] = buf[w]

\* C24: while the only job of the system runs, a write of the log inside the
\* loop of run_script comes only when at least 5 lines have been read since
\* the log the job wrote before.
C24_LogWrittenInChunks ==
  [][\A w \in Workers :
       (/\ nreq = 1
        /\ At(w, "s_flush")
        /\ pc'[w] = <<"s_flush", "trunc">>)
         => Len(buf[w]) - Len(ReadState(file)["log_output"])
              >= LOG_FLUSH_LINES]_vars

\* C25: in update_daily_quotes, for each stock the primary source is called
\* at most max_retries times; the secondary source is called at most once,
\* only after the primary one, and with netease_symbol of the stock; a stock
\* for which every call failed gets no rows, and the loop goes on with the
\* next instrument, so that at the end of the batch every instrument has been
\* through the loop.
C25_RetryFallbackSkip ==
  /\ \A i \in DOMAIN batch :
       /\ calls[i].primary <= max_retries
       /\ calls[i].secondary <= 1
       /\ calls[i].secondary = 1
            => /\ calls[i].primary >= 1
               /\ calls[i].sent = netease_symbol(batch[i].symbol)
       /\ batch[i].asset_type = "stock" /\ outcome[i] = "empty"
            => /\ calls[i].secondary = 1
               /\ batch[i].symbol \notin quotes
       /\ i < si => outcome[i] # "none"
  /\ spc = "end" => \A i \in DOMAIN batch : outcome[i] # "none"

\* a stock exhausted the primary source and the secondary one and was
\* skipped, and the instrument after it was updated
C25_Witness ==
  /\ spc = "end"
  /\ Len(batch) >= 2
  /\ batch[1].asset_type = "stock"
  /\ calls[1] = [primary |-> max_retries, secondary |-> 1,
                 sent |-> netease_symbol(batch[1].symbol)]
  /\ outcome[1] = "empty"
  /\ outcome[2] = "updated"
  /\ batch[2].symbol \in quotes

\* C26: every job the server accepted reaches the end of run_sync_task, and
\* at that moment the persisted state is idle (is_running false, current_task
\* null), whether the script succeeded, failed, was absent or could not be
\* started; the last two updates of the job write the same progress and
\* is_running / current_task values whatever the result, the result goes to
\* log_output only.
C26_JobReturnsToIdle ==
  /\ \A w \in Workers :
       (pc[w][1] \in JobPcs)
         ~> (/\ pc[w][1] \notin JobPcs
             /\ file # Unreadable
             /\ ~file["is_running"]
             /\ file["current_task"] = None)
  /\ [][\A w \in Workers :
          /\ (At(w, "t_done") /\ pc'[w] = <<"t_done", "trunc">>)
               => /\ DOMAIN kw'[w] = {"progress", "last_sync_at", "log_output"}
                  /\ kw'[w]["progress"] = 100
                  /\ kw'[w]["last_sync_at"] = Now
                  /\ kw'[w]["log_output"] =
                       Append(snap[w]["log_output"],
                              IF success[w] THEN "ok" ELSE "warn")
          /\ (pc[w] = <<"t_finally", "dump">> /\ pc'[w][1] = "idle")
               => /\ ~file'["is_running"]
                  /\ file'["current_task"] = None]_vars

\* a job whose script could not be started has ended: the state is idle and
\* the failure is in the log
C26_Witness ==
  /\ Jobs = {}
  /\ resp = [kind |-> "start", status |-> 200]
  /\ file # Unreadable
  /\ ~file["is_running"]
  /\ file["current_task"] = None
  /\ file["progress"] = 100
  /\ \E i \in DOMAIN file["log_output"] : file["log_output"][i] = "error"
  /\ file["log_output"][Len(file["log_output"])] = "warn"

\* C27: when the first crawl of a creator was cut short (the process was
\* killed or the governor tripped) after it had stored some items, the
\* incremental crawl that follows and runs to its end has stored every item
\* the platform holds of the creator.
C27_NoItemSkipped ==
  (run = 2 /\ cpc = "done" /\ first.how = "aborted" /\ first.stored # {})
    => \A x \in RemoteItems : \E r \in content : r.content_id = x.content_id

\* C28: a save_content of a content id that is already stored leaves the
\* is_tagged flag of its row as it was, on either backend; a tagged item
\* stays out of the selection of an incremental tagging pass.
C28_RecrawlKeepsTagged ==
  [][\A r \in content :
       (lastSave' # <<>> /\ lastSave'[1].content_id = r.content_id)
         => \A x \in content' :
              x.content_id = r.content_id => x.is_tagged = r.is_tagged]_vars

\* C29: once stop_sync has returned, and as long as no other request has been
\* answered after it, no step of a job that has passed its first update
\* turns the persisted is_running from false to true.
C29_StoppedStaysStopped ==
  [][(/\ resp = [kind |-> "stop", status |-> 200]
      /\ resp' = resp
      /\ \A w \in Workers : pc[w][1] # "t_begin"
      /\ ~ReadState(file)["is_running"])
       => ~ReadState(file')["is_running"]]_vars

\* a row written by update_article_stocks
IsManual(row) ==
  /\ row.match_keyword \in STRING
  /\ row.match_keyword = "manual"
  /\ row.match_score = MANUAL_SCORE

\* C30: when an incremental tagging pass, started after the last manual
\* override, handles an item that has manual rows, the item keeps the rows
\* it has: none is added and every manual row is still a manual row.
C30_PassKeepsOverride ==
  [][(/\ tpc = "loop"
      /\ ~tag_all
      /\ \E n \in RefsOf(refs, Head(todo).content_id) : IsManual(refs[n]))
       => LET id == Head(todo).content_id IN
            /\ RefsOf(refs', id) = RefsOf(refs, id)
            /\ \A n \in RefsOf(refs, id) :
                 IsManual(refs[n]) => IsManual(refs'[n])]_vars

====
